---- MODULE Spec2Model ----
(***************************************************************************)
(* Model of the distributed training orchestration loop of train.py:       *)
(* TrainState with its state_dict / load_state_dict pair, and main() from  *)
(* the construction of the mesh to metric_logger.close().                  *)
(*                                                                         *)
(* Python floats are modelled as integers counting half units (the value   *)
(* n stands for n/2).  A float32 holds the even values only, so the        *)
(* conversion to float32 rounds; every loss the loop produces comes out of *)
(* a float32 tensor (loss.item()) and is even.  -1.0 is the integer -2.    *)
(***************************************************************************)
EXTENDS Integers, Sequences, FiniteSets, TLC

\* ------------------------------------------------------------------ bounds
MaxSteps == 3        \* largest training.steps explored, and the steps explored
                     \* when training.steps == -1
MaxLogFreq == 2      \* largest metrics.log_freq explored
MaxInterval == 2     \* largest checkpoint_interval explored

\* --------------------------------------------------------- program constants
Int32Max == 2147483647
Int32Min == -Int32Max - 1
DefaultLoss == -2    \* current_loss: float = -1   (half units)
ForeverSteps == -1   \* training.steps == -1

NoVal == "none"

\* ------------------------------------------------------------ Python values
PyList(s) == [type |-> "list", val |-> s]
PyFloat(x) == [type |-> "float", val |-> x]

\* torch.tensor(x, dtype=torch.float32): rounding towards the float32 grid
Float32(x) == 2 * (x \div 2)

\* torch.tensor(x, dtype=torch.int32): raises on a value outside int32
Int32(x) == IF x >= Int32Min /\ x <= Int32Max THEN x ELSE NoVal

\* a tensor: dim 0 holds one scalar, dim 1 holds a sequence
Tensor0(dtype, x) == [dtype |-> dtype, dim |-> 0, data |-> x]
Tensor1(dtype, s) == [dtype |-> dtype, dim |-> 1, data |-> s]

\* Tensor.item()
item(t) == IF t.dim = 0 THEN t.data ELSE t.data[1]

\* Tensor.tolist(): a 0-dim tensor gives a Python scalar, not a list
tolist(t) == IF t.dim = 0 THEN PyFloat(t.data) ELSE PyList(t.data)

\* len(x) == n of a Python value; a float has no len()
HasLen(x, n) == x.type = "list" /\ Len(x.val) = n

\* ---------------------------------------------------------------- TrainState
\* TrainState(): step 0, current_loss -1, losses []
TrainState == [step |-> 0, current_loss |-> DefaultLoss, losses |-> PyList(<<>>)]

\* the "losses" entry of state_dict: built from current_loss
state_dict_losses(ts) == Tensor0("float32", Float32(ts.current_loss))

state_dict(ts) ==
    [step |-> Tensor0("int32", Int32(ts.step)),
     current_loss |-> Tensor0("float32", Float32(ts.current_loss)),
     losses |-> state_dict_losses(ts)]

load_state_dict(sd) ==
    [step |-> item(sd.step),
     current_loss |-> item(sd.current_loss),
     losses |-> tolist(sd.losses)]

\* ------------------------------------------------------------- configuration
\* loss.item(): the values a float32 loss tensor can give (1.0 and 2.0)
LossValues == {2, 4}

StepsChoices == {ForeverSteps} \cup (0 .. MaxSteps)

\* (world_size, dp, sp, pp) of a single-process launch, valid and invalid
Topologies ==
    { [world_size |-> 1, dp |-> 1, sp |-> 1, pp |-> 1],
      [world_size |-> 1, dp |-> 2, sp |-> 1, pp |-> 1],
      [world_size |-> 1, dp |-> 1, sp |-> 0, pp |-> 1],
      [world_size |-> 1, dp |-> -1, sp |-> -1, pp |-> 1] }

IntervalChoices ==
    { [type |-> "steps", value |-> v] : v \in 1 .. MaxInterval }
        \cup { [type |-> "seconds", value |-> 1] }

\* job_config and the launch environment
JobConfigs ==
    { [steps |-> n, log_freq |-> f,
       checkpoint_interval_type |-> i.type, checkpoint_interval |-> i.value,
       world_size |-> t.world_size, data_parallel_degree |-> t.dp,
       sequence_parallel_degree |-> t.sp, pipeline_parallel_degree |-> t.pp,
       batch_size |-> 1, seq_len |-> 2, loader_restarts |-> TRUE] :
      n \in StepsChoices, f \in 1 .. MaxLogFreq, i \in IntervalChoices,
      t \in Topologies }

\* the data loader build_dataloader_fn returns: one whose iteration restarts
\* from the beginning (a loader over a dataset), or one that streams, every
\* iterator of it going on where the loader stands
DataLoader(restarts) == [restarts |-> restarts, consumed |-> 0]

\* iter(data_loader) resuming where the last iterator stopped
iter_Resume(loader) == [pos |-> loader.consumed]

\* iter(data_loader): a new iterator
iter(loader) == [pos |-> IF loader.restarts THEN 0 ELSE loader.consumed]

\* next(it): the batch at the iterator's position; batches are numbered from 1
next(it) == it.pos + 1

\* the loader after one batch was taken from it
Taken(loader) == [loader EXCEPT !.consumed = @ + 1]

\* a checkpoint directory left by something other than this program: its
\* train-state record says step 1 and holds no loss
ForeignRecord ==
    [step |-> Tensor0("int32", 1),
     current_loss |-> Tensor0("float32", 2),
     losses |-> Tensor1("float32", <<>>)]

\* ------------------------------------------------------------------ numerics
RECURSIVE SeqSum(_)
SeqSum(s) == IF s = <<>> THEN 0 ELSE Head(s) + SeqSum(Tail(s))

RECURSIVE SeqMax(_)
SeqMax(s) ==
    IF Len(s) = 1 THEN s[1]
    ELSE LET m == SeqMax(Tail(s)) IN IF Head(s) >= m THEN Head(s) ELSE m

RECURSIVE Gcd(_, _)
Gcd(a, b) == IF b = 0 THEN a ELSE Gcd(b, a % b)

Abs(x) == IF x < 0 THEN -x ELSE x

\* an exact quotient num/den, den > 0, in lowest terms
Frac(num, den) ==
    LET g == Gcd(Abs(num), den)
    IN  [num |-> num \div g, den |-> den \div g]

\* nan, as the quotient 0/0
NaN == [num |-> 0, den |-> 0]

\* np.sum in place of np.mean
np_mean_Sum(s) == IF s = <<>> THEN NaN ELSE Frac(SeqSum(s), 1)

\* np.mean of a list; of an empty list numpy gives nan
np_mean(s) == IF s = <<>> THEN NaN ELSE Frac(SeqSum(s), Len(s))

\* np.max of a non-empty list
np_max(s) == SeqMax(s)

\* --------------------------------------------------- collaborators (contract)
\* ParallelDims(...).build_mesh: the product of the degrees is the world
\* size and every degree is at least 1
TopologyValid(c) ==
    /\ c.data_parallel_degree >= 1
    /\ c.sequence_parallel_degree >= 1
    /\ c.pipeline_parallel_degree >= 1
    /\ c.data_parallel_degree * c.sequence_parallel_degree
         * c.pipeline_parallel_degree = c.world_size

\* CheckpointManager.save's decision to write
shouldSave(c, currentStep, elapsedDue, forceFlag) ==
    \/ forceFlag
    \/ c.checkpoint_interval_type = "steps"
         /\ currentStep % c.checkpoint_interval = 0
    \/ c.checkpoint_interval_type = "seconds" /\ elapsedDue

RECURSIVE FracSum(_, _)
FracSum(f, S) ==
    IF S = {} THEN Frac(0, 1)
    ELSE LET r == CHOOSE x \in S : TRUE
             rest == FracSum(f, S \ {r})
         IN  Frac(f[r].num * rest.den + rest.num * f[r].den, f[r].den * rest.den)

\* dist_mean: the mean of one value per rank
dist_mean(f, ranks) ==
    LET t == FracSum(f, ranks) IN Frac(t.num, t.den * Cardinality(ranks))

\* dist_max: the maximum of one value per rank
dist_max(f, ranks) == CHOOSE m \in {f[r] : r \in ranks} : \A r \in ranks : f[r] <= m

\* --------------------------------------------------------------------- state
VARIABLES
    cfg,                    \* job_config and WORLD_SIZE of the current launch
    run,                    \* 1 for the first launch, 2 for the resumed one
    store,                  \* the checkpoint folder: the entries written
    pc,                     \* per rank: the position of main()
    error,                  \* per rank: the exception that ended main()
    train_state,            \* per rank: the TrainState object
    start_step,             \* per rank: train_state.step at loop entry
    loss,                   \* per rank: loss.item() of the current iteration
    step_skipped,           \* per rank: scaler.step skipped optimizer.step
    opt_steps,              \* per rank: optimizer.step() calls applied
    data_loader,            \* per rank: the data loader
    batch,                  \* per rank: the batch of the current iteration
    losses_since_last_log,  \* per rank
    nwords_since_last_log,  \* per rank
    avg_loss,               \* per rank: np.mean(losses_since_last_log)
    max_loss,               \* per rank: np.max(losses_since_last_log)
    global_avg_loss,        \* per rank: result of dist_mean
    global_max_loss,        \* per rank: result of dist_max
    metric_log,             \* per rank: the records given to metric_logger.log
    sched_steps,            \* per rank: scheduler.step() calls
    iters,                  \* per rank: loop iterations completed
    last_save,              \* per rank: <<the last checkpoint.save call>>
    save_calls,             \* per rank: checkpoint.save calls
    load_calls,             \* per rank: checkpoint.load calls
    loaded,                 \* per rank: <<the entry checkpoint.load restored>>
    reset_calls,            \* per rank: checkpoint.reset calls
    closed                  \* per rank: metric_logger.close() was called

envVars == <<cfg, run, store>>
stateVars == <<train_state, start_step>>
computeVars == <<loss, step_skipped, opt_steps, data_loader, batch>>
windowVars == <<losses_since_last_log, nwords_since_last_log>>
reduceVars == <<avg_loss, max_loss, global_avg_loss, global_max_loss>>
saveVars == <<last_save, save_calls>>
startVars == <<load_calls, loaded, reset_calls>>

vars == <<cfg, run, store, pc, error, train_state, start_step, loss, step_skipped,
          opt_steps, data_loader, batch, losses_since_last_log, nwords_since_last_log, avg_loss,
          max_loss, global_avg_loss, global_max_loss, metric_log, sched_steps,
          iters, last_save, save_calls, load_calls, loaded, reset_calls, closed>>

Ranks == 1 .. cfg.world_size

\* the folder at the first launch: empty, or holding the foreign checkpoint
ForeignStores ==
    { {}, {[step |-> 1, rank |-> 1, run |-> 0, train_state |-> ForeignRecord]} }

\* the state of every rank when main() is entered.  The locals main() has
\* not bound yet hold the value of their type that the first binding gives or
\* a neutral one: train_state the TrainState() of line 148, the window the
\* empty one of lines 170-171, loss the default current_loss, the reduction
\* operands 0.
InitWith(configs, stores) ==
    /\ cfg \in configs
    /\ run = 1
    /\ store \in stores
    /\ pc = [r \in Ranks |-> "build_mesh"]
    /\ error = [r \in Ranks |-> NoVal]
    /\ train_state = [r \in Ranks |-> TrainState]
    /\ start_step = [r \in Ranks |-> 0]
    /\ loss = [r \in Ranks |-> DefaultLoss]
    /\ step_skipped = [r \in Ranks |-> FALSE]
    /\ opt_steps = [r \in Ranks |-> 0]
    /\ data_loader = [r \in Ranks |-> DataLoader(cfg.loader_restarts)]
    /\ batch = [r \in Ranks |-> 0]
    /\ losses_since_last_log = [r \in Ranks |-> <<>>]
    /\ nwords_since_last_log = [r \in Ranks |-> 0]
    /\ avg_loss = [r \in Ranks |-> Frac(0, 1)]
    /\ max_loss = [r \in Ranks |-> 0]
    /\ global_avg_loss = [r \in Ranks |-> Frac(0, 1)]
    /\ global_max_loss = [r \in Ranks |-> 0]
    /\ metric_log = [r \in Ranks |-> <<>>]
    /\ sched_steps = [r \in Ranks |-> 0]
    /\ iters = [r \in Ranks |-> 0]
    /\ last_save = [r \in Ranks |-> <<>>]
    /\ save_calls = [r \in Ranks |-> 0]
    /\ load_calls = [r \in Ranks |-> 0]
    /\ loaded = [r \in Ranks |-> <<>>]
    /\ reset_calls = [r \in Ranks |-> 0]
    /\ closed = [r \in Ranks |-> FALSE]

\* ------------------------------------------------------------------- startup
\* lines 82-89 with a mesh built whatever the degrees are
BuildMesh_Unchecked(p) ==
    /\ pc[p] = "build_mesh"
    /\ pc' = [pc EXCEPT ![p] = "setup"]
    /\ UNCHANGED <<envVars, error, stateVars, computeVars, windowVars, reduceVars,
                   metric_log, sched_steps, iters, saveVars, startVars, closed>>

\* lines 82-89: read WORLD_SIZE, ParallelDims(...), build_mesh
BuildMesh(p) ==
    /\ pc[p] = "build_mesh"
    /\ IF TopologyValid(cfg)
       THEN /\ pc' = [pc EXCEPT ![p] = "setup"]
            /\ UNCHANGED error
       ELSE /\ pc' = [pc EXCEPT ![p] = "failed"]
            /\ error' = [error EXCEPT ![p] = "ConfigError"]
    /\ UNCHANGED <<envVars, stateVars, computeVars, windowVars, reduceVars,
                   metric_log, sched_steps, iters, saveVars, startVars, closed>>

\* lines 91-168 without line 165: checkpoint.load() is not called
Setup_SkipLoad(p) ==
    /\ pc[p] = "setup"
    /\ data_loader' = [data_loader EXCEPT ![p] = DataLoader(cfg.loader_restarts)]
    /\ train_state' = [train_state EXCEPT ![p] = TrainState]
    /\ pc' = [pc EXCEPT ![p] = "reset"]
    /\ UNCHANGED <<envVars, error, start_step, loss, step_skipped, opt_steps, batch,
                   windowVars, reduceVars, metric_log, sched_steps, iters, saveVars,
                   startVars, closed>>

\* lines 91-164: tokenizer, data loader, model, optimizer, scheduler, scaler,
\* metric logger, train_state = TrainState(), CheckpointManager(...)
Setup(p) ==
    /\ pc[p] = "setup"
    /\ data_loader' = [data_loader EXCEPT ![p] = DataLoader(cfg.loader_restarts)]
    /\ train_state' = [train_state EXCEPT ![p] = TrainState]
    /\ pc' = [pc EXCEPT ![p] = "load"]
    /\ UNCHANGED <<envVars, error, start_step, loss, step_skipped, opt_steps, batch,
                   windowVars, reduceVars, metric_log, sched_steps, iters, saveVars,
                   startVars, closed>>

\* the entries of the folder a rank can load, and the latest of them
EntriesOf(p) == {e \in store : e.rank = p}
LatestEntry(p) == CHOOSE e \in EntriesOf(p) : \A o \in EntriesOf(p) : o.step <= e.step

\* line 165: checkpoint.load(); a checkpoint found is handed to
\* train_state.load_state_dict, no checkpoint leaves the fresh TrainState
Load(p) ==
    /\ pc[p] = "load"
    /\ train_state' =
         [train_state EXCEPT ![p] =
            IF EntriesOf(p) = {} THEN @
            ELSE load_state_dict(LatestEntry(p).train_state)]
    /\ loaded' = [loaded EXCEPT ![p] =
                    IF EntriesOf(p) = {} THEN @ ELSE <<LatestEntry(p)>>]
    /\ load_calls' = [load_calls EXCEPT ![p] = @ + 1]
    /\ pc' = [pc EXCEPT ![p] = "reset"]
    /\ UNCHANGED <<envVars, error, start_step, computeVars, windowVars, reduceVars,
                   metric_log, sched_steps, iters, saveVars, reset_calls, closed>>

\* lines 167-172: checkpoint.reset() and the metrics window
Reset(p) ==
    /\ pc[p] = "reset"
    /\ reset_calls' = [reset_calls EXCEPT ![p] = @ + 1]
    /\ losses_since_last_log' = [losses_since_last_log EXCEPT ![p] = <<>>]
    /\ nwords_since_last_log' = [nwords_since_last_log EXCEPT ![p] = 0]
    /\ start_step' = [start_step EXCEPT ![p] = train_state[p].step]
    /\ pc' = [pc EXCEPT ![p] = "loop"]
    /\ UNCHANGED <<envVars, error, train_state, computeVars, reduceVars,
                   metric_log, sched_steps, iters, saveVars, load_calls, loaded,
                   closed>>

\* ---------------------------------------------------------------- train loop
\* line 173 without the test for -1
LoopCond_NoSentinel(step, steps) == step < steps

\* line 173 with <= for <
LoopCond_Inclusive(step, steps) == step <= steps \/ steps = ForeverSteps

\* line 173: the while condition
LoopCond(step, steps) == step < steps \/ steps = ForeverSteps

\* line 174: train_state.step += 1
StepIncrement(ts) == [ts EXCEPT !.step = @ + 1]

\* lines 173-174; step_skipped tells of the iteration being entered
LoopTest(p) ==
    /\ pc[p] = "loop"
    /\ IF LoopCond(train_state[p].step, cfg.steps)
       THEN /\ cfg.steps = ForeverSteps => train_state[p].step < MaxSteps
            /\ train_state' = [train_state EXCEPT ![p] = StepIncrement(@)]
            /\ step_skipped' = [step_skipped EXCEPT ![p] = FALSE]
            /\ pc' = [pc EXCEPT ![p] = "compute"]
       ELSE /\ pc' = [pc EXCEPT ![p] = "stopping"]
            /\ UNCHANGED <<train_state, step_skipped>>
    /\ UNCHANGED <<envVars, error, start_step, loss, opt_steps, data_loader, batch,
                   windowVars, reduceVars, metric_log, sched_steps, iters, saveVars,
                   startVars, closed>>

\* lines 176-208: batch = next(iter(data_loader)), forward, backward, unscale,
\* clip, scaler.step (which skips optimizer.step on non-finite gradients),
\* scaler.update
ComputeWith(p, lossValues, skips) ==
    /\ pc[p] = "compute"
    /\ batch' = [batch EXCEPT ![p] = next(iter(data_loader[p]))]
    /\ data_loader' = [data_loader EXCEPT ![p] = Taken(@)]
    /\ \E l \in lossValues, skipped \in skips :
         /\ loss' = [loss EXCEPT ![p] = l]
         /\ step_skipped' = [step_skipped EXCEPT ![p] = skipped]
         /\ opt_steps' = [opt_steps EXCEPT ![p] = IF skipped THEN @ ELSE @ + 1]
    /\ nwords_since_last_log' =
         [nwords_since_last_log EXCEPT ![p] = @ + cfg.batch_size * cfg.seq_len]
    /\ pc' = [pc EXCEPT ![p] = "advance"]
    /\ UNCHANGED <<envVars, error, stateVars, losses_since_last_log, reduceVars,
                   metric_log, sched_steps, iters, saveVars, startVars, closed>>

Compute(p) == ComputeWith(p, LossValues, BOOLEAN)

\* lines 176-208 raising: the data loader, the model or the device fails
ComputeFail(p) ==
    /\ pc[p] = "compute"
    /\ pc' = [pc EXCEPT ![p] = "failed"]
    /\ error' = [error EXCEPT ![p] = "ComputeError"]
    /\ UNCHANGED <<envVars, stateVars, computeVars, windowVars, reduceVars,
                   metric_log, sched_steps, iters, saveVars, startVars, closed>>

\* line 211 omitted: the loss is not appended
AppendLoss_Dropped(losses, l) == losses

\* line 211: train_state.losses.append(current_loss)
AppendLoss(losses, l) == PyList(Append(losses.val, l))

\* line 215 counting from step 0: step % log_freq == 0
LogCond_ZeroBased(step, log_freq) == step % log_freq = 0

\* line 215 without the condition: every step is a log step
LogCond_EveryStep(step, log_freq) == TRUE

\* line 215: the log condition
LogCond(step, log_freq) == (step - 1) % log_freq = 0

\* line 215 deciding by the loss of the process
LogNow_ByLoss(p) == loss[p] = 4

\* line 215 as a process evaluates it
LogNow(p) == LogCond(train_state[p].step, cfg.log_freq)

\* lines 210-219: the loss is recorded (append is a method of a list only) and,
\* on a log step, the window's mean and max are taken and dist_mean is called
Advance(p) ==
    /\ pc[p] = "advance"
    /\ IF train_state[p].losses.type = "list"
       THEN /\ train_state' =
                 [train_state EXCEPT ![p] =
                    [@ EXCEPT !.current_loss = loss[p],
                              !.losses = AppendLoss(@, loss[p])]]
            /\ losses_since_last_log' =
                 [losses_since_last_log EXCEPT ![p] = Append(@, loss[p])]
            /\ IF LogNow(p)
               THEN /\ avg_loss' =
                         [avg_loss EXCEPT ![p] = np_mean(losses_since_last_log'[p])]
                    /\ max_loss' =
                         [max_loss EXCEPT ![p] = np_max(losses_since_last_log'[p])]
                    /\ pc' = [pc EXCEPT ![p] = "dist_mean"]
               ELSE /\ pc' = [pc EXCEPT ![p] = "sched"]
                    /\ UNCHANGED <<avg_loss, max_loss>>
            /\ UNCHANGED error
       ELSE /\ train_state' = [train_state EXCEPT ![p].current_loss = loss[p]]
            /\ pc' = [pc EXCEPT ![p] = "failed"]
            /\ error' = [error EXCEPT ![p] = "AttributeError"]
            /\ UNCHANGED <<losses_since_last_log, avg_loss, max_loss>>
    /\ UNCHANGED <<envVars, start_step, computeVars, nwords_since_last_log,
                   global_avg_loss, global_max_loss, metric_log, sched_steps,
                   iters, saveVars, startVars, closed>>

\* lines 219-220 with a timeout: dist_mean returns to the processes that
\* called it once every other process has ended
AllReduceMean_Timeout ==
    LET here == {r \in Ranks : pc[r] = "dist_mean"}
    IN  /\ here # {}
        /\ \A r \in Ranks : pc[r] \in {"dist_mean", "failed", "done"}
        /\ global_avg_loss' =
              [r \in Ranks |-> IF r \in here THEN dist_mean(avg_loss, here)
                               ELSE global_avg_loss[r]]
        /\ pc' = [r \in Ranks |-> IF r \in here THEN "dist_max" ELSE pc[r]]
        /\ UNCHANGED <<envVars, error, stateVars, computeVars, windowVars,
                       avg_loss, max_loss, global_max_loss, metric_log,
                       sched_steps, iters, saveVars, startVars, closed>>

\* lines 219-220: dist_mean returns on every rank once every rank called it;
\* each rank then calls dist_max
AllReduceMean ==
    /\ \A r \in Ranks : pc[r] = "dist_mean"
    /\ global_avg_loss' = [r \in Ranks |-> dist_mean(avg_loss, Ranks)]
    /\ pc' = [r \in Ranks |-> "dist_max"]
    /\ UNCHANGED <<envVars, error, stateVars, computeVars, windowVars, avg_loss,
                   max_loss, global_max_loss, metric_log, sched_steps, iters,
                   saveVars, startVars, closed>>

\* line 221: dist_max returns on every rank once every rank called it
AllReduceMax ==
    /\ \A r \in Ranks : pc[r] = "dist_max"
    /\ global_max_loss' = [r \in Ranks |-> dist_max(max_loss, Ranks)]
    /\ pc' = [r \in Ranks |-> "emit"]
    /\ UNCHANGED <<envVars, error, stateVars, computeVars, windowVars, avg_loss,
                   max_loss, global_avg_loss, metric_log, sched_steps, iters,
                   saveVars, startVars, closed>>

\* lines 223-245 followed at once by line 252: checkpoint.save is called
\* before scheduler.step()
Emit_ThenSave(p) ==
    /\ pc[p] = "emit"
    /\ metric_log' =
         [metric_log EXCEPT ![p] =
            Append(@, [step |-> train_state[p].step,
                       global_avg_loss |-> global_avg_loss[p],
                       global_max_loss |-> global_max_loss[p],
                       nwords |-> nwords_since_last_log[p]])]
    /\ losses_since_last_log' = [losses_since_last_log EXCEPT ![p] = <<>>]
    /\ nwords_since_last_log' = [nwords_since_last_log EXCEPT ![p] = 0]
    /\ pc' = [pc EXCEPT ![p] = "save"]
    /\ UNCHANGED <<envVars, error, stateVars, computeVars, reduceVars,
                   sched_steps, iters, saveVars, startVars, closed>>

\* lines 223-241 without lines 243-245: the window is not reset
Emit_NoReset(p) ==
    /\ pc[p] = "emit"
    /\ metric_log' =
         [metric_log EXCEPT ![p] =
            Append(@, [step |-> train_state[p].step,
                       global_avg_loss |-> global_avg_loss[p],
                       global_max_loss |-> global_max_loss[p],
                       nwords |-> nwords_since_last_log[p]])]
    /\ pc' = [pc EXCEPT ![p] = "sched"]
    /\ UNCHANGED <<envVars, error, stateVars, computeVars, windowVars, reduceVars,
                   sched_steps, iters, saveVars, startVars, closed>>

\* lines 223-245: metric_logger.log(metrics, step=train_state.step) and the
\* reset of the window
Emit(p) ==
    /\ pc[p] = "emit"
    /\ metric_log' =
         [metric_log EXCEPT ![p] =
            Append(@, [step |-> train_state[p].step,
                       global_avg_loss |-> global_avg_loss[p],
                       global_max_loss |-> global_max_loss[p],
                       nwords |-> nwords_since_last_log[p]])]
    /\ losses_since_last_log' = [losses_since_last_log EXCEPT ![p] = <<>>]
    /\ nwords_since_last_log' = [nwords_since_last_log EXCEPT ![p] = 0]
    /\ pc' = [pc EXCEPT ![p] = "sched"]
    /\ UNCHANGED <<envVars, error, stateVars, computeVars, reduceVars,
                   sched_steps, iters, saveVars, startVars, closed>>

\* lines 247-250 with scheduler.step() tied to the optimizer step
Sched_OnlyIfStepped(p) ==
    /\ pc[p] = "sched"
    /\ sched_steps' = [sched_steps EXCEPT ![p] = IF step_skipped[p] THEN @ ELSE @ + 1]
    /\ pc' = [pc EXCEPT ![p] = "save"]
    /\ UNCHANGED <<envVars, error, stateVars, computeVars, windowVars, reduceVars,
                   metric_log, iters, saveVars, startVars, closed>>

\* lines 247-250: scheduler.step()
Sched(p) ==
    /\ pc[p] = "sched"
    /\ sched_steps' = [sched_steps EXCEPT ![p] = @ + 1]
    /\ pc' = [pc EXCEPT ![p] = "save"]
    /\ UNCHANGED <<envVars, error, stateVars, computeVars, windowVars, reduceVars,
                   metric_log, iters, saveVars, startVars, closed>>

\* line 252 without the force argument: force stays False
ForceFlag_Never(step, steps) == FALSE

\* line 252: the force argument
ForceFlag(step, steps) == step = steps

\* CheckpointManager.save(step, force): writes when shouldSave says so; the
\* write replaces the entry of that step or, when it fails, leaves the folder
\* as it was and is reported, not raised
checkpoint_save(p, step, force, elapsedDue, writeOk) ==
    LET attempted == shouldSave(cfg, step, elapsedDue, force)
        written == attempted /\ writeOk
        entry == [step |-> step, rank |-> p, run |-> run,
                  train_state |-> state_dict(train_state[p])]
    IN  /\ store' = IF written
                    THEN {e \in store : ~(e.rank = p /\ e.step = step)} \cup {entry}
                    ELSE store
        /\ last_save' = [last_save EXCEPT ![p] =
                           <<[step |-> step, force |-> force,
                              attempted |-> attempted, written |-> written,
                              failed |-> attempted /\ ~writeOk]>>]

\* line 252: checkpoint.save(train_state.step, force=...), the end of the
\* iteration
SaveWith(p, writeOks) ==
    /\ pc[p] = "save"
    /\ \E elapsedDue \in IF cfg.checkpoint_interval_type = "seconds"
                         THEN BOOLEAN ELSE {FALSE},
          writeOk \in writeOks :
         checkpoint_save(p, train_state[p].step,
                         ForceFlag(train_state[p].step, cfg.steps),
                         elapsedDue, writeOk)
    /\ save_calls' = [save_calls EXCEPT ![p] = @ + 1]
    /\ iters' = [iters EXCEPT ![p] = @ + 1]
    /\ pc' = [pc EXCEPT ![p] = "loop"]
    /\ UNCHANGED <<cfg, run, error, stateVars, computeVars, windowVars, reduceVars,
                   metric_log, sched_steps, startVars, closed>>

\* line 252 with a failed write raised out of checkpoint.save
Save_RaiseOnFailure(p) ==
    /\ pc[p] = "save"
    /\ \E elapsedDue \in IF cfg.checkpoint_interval_type = "seconds"
                         THEN BOOLEAN ELSE {FALSE},
          writeOk \in BOOLEAN :
         LET force == ForceFlag(train_state[p].step, cfg.steps)
             raised == shouldSave(cfg, train_state[p].step, elapsedDue, force)
                         /\ ~writeOk
         IN  /\ checkpoint_save(p, train_state[p].step, force, elapsedDue, writeOk)
             /\ pc' = [pc EXCEPT ![p] = IF raised THEN "failed" ELSE "loop"]
             /\ error' = [error EXCEPT ![p] =
                            IF raised THEN "CheckpointWriteFailure" ELSE @]
    /\ save_calls' = [save_calls EXCEPT ![p] = @ + 1]
    /\ iters' = [iters EXCEPT ![p] = @ + 1]
    /\ UNCHANGED <<cfg, run, stateVars, computeVars, windowVars, reduceVars,
                   metric_log, sched_steps, startVars, closed>>

Save(p) == SaveWith(p, BOOLEAN)

\* lines 254-255: metric_logger.close() and the final memory summary
Close(p) ==
    /\ pc[p] = "stopping"
    /\ closed' = [closed EXCEPT ![p] = TRUE]
    /\ pc' = [pc EXCEPT ![p] = "done"]
    /\ UNCHANGED <<envVars, error, stateVars, computeVars, windowVars, reduceVars,
                   metric_log, sched_steps, iters, saveVars, startVars>>

\* the job is launched again on the same folder once every rank of the first
\* launch has ended; training.steps may have been reconfigured
Restart ==
    /\ run = 1
    /\ \A r \in Ranks : pc[r] \in {"done", "failed"}
    /\ \E n \in StepsChoices : cfg' = [cfg EXCEPT !.steps = n]
    /\ run' = 2
    /\ pc' = [r \in Ranks |-> "build_mesh"]
    /\ error' = [r \in Ranks |-> NoVal]
    /\ train_state' = [r \in Ranks |-> TrainState]
    /\ start_step' = [r \in Ranks |-> 0]
    /\ loss' = [r \in Ranks |-> DefaultLoss]
    /\ step_skipped' = [r \in Ranks |-> FALSE]
    /\ opt_steps' = [r \in Ranks |-> 0]
    /\ data_loader' = [r \in Ranks |-> DataLoader(cfg.loader_restarts)]
    /\ batch' = [r \in Ranks |-> 0]
    /\ losses_since_last_log' = [r \in Ranks |-> <<>>]
    /\ nwords_since_last_log' = [r \in Ranks |-> 0]
    /\ avg_loss' = [r \in Ranks |-> Frac(0, 1)]
    /\ max_loss' = [r \in Ranks |-> 0]
    /\ global_avg_loss' = [r \in Ranks |-> Frac(0, 1)]
    /\ global_max_loss' = [r \in Ranks |-> 0]
    /\ metric_log' = [r \in Ranks |-> <<>>]
    /\ sched_steps' = [r \in Ranks |-> 0]
    /\ iters' = [r \in Ranks |-> 0]
    /\ last_save' = [r \in Ranks |-> <<>>]
    /\ save_calls' = [r \in Ranks |-> 0]
    /\ load_calls' = [r \in Ranks |-> 0]
    /\ loaded' = [r \in Ranks |-> <<>>]
    /\ reset_calls' = [r \in Ranks |-> 0]
    /\ closed' = [r \in Ranks |-> FALSE]
    /\ UNCHANGED store

Next ==
    \/ \E p \in Ranks : BuildMesh(p)
    \/ \E p \in Ranks : Setup(p)
    \/ \E p \in Ranks : Load(p)
    \/ \E p \in Ranks : Reset(p)
    \/ \E p \in Ranks : LoopTest(p)
    \/ \E p \in Ranks : Compute(p)
    \/ \E p \in Ranks : ComputeFail(p)
    \/ \E p \in Ranks : Advance(p)
    \/ \E p \in Ranks : Emit(p)
    \/ \E p \in Ranks : Sched(p)
    \/ \E p \in Ranks : Save(p)
    \/ \E p \in Ranks : Close(p)
    \/ AllReduceMean
    \/ AllReduceMax
    \/ Restart

\* the first launch finds an empty checkpoint folder
Init == InitWith(JobConfigs, {{}})

Spec == Init /\ [][Next]_vars

\* a launched process keeps executing: a step of the program that can be
\* taken is taken
Run ==
    \/ \E p \in Ranks :
         \/ BuildMesh(p) \/ Setup(p) \/ Load(p) \/ Reset(p) \/ LoopTest(p)
         \/ Compute(p) \/ Advance(p) \/ Emit(p) \/ Sched(p)
         \/ Save(p) \/ Close(p)
    \/ AllReduceMean
    \/ AllReduceMax

\* the launches explored for the stop condition: the log and checkpoint
\* cadences do not enter the while condition, so one of each is kept
StopConfigs ==
    {c \in JobConfigs : /\ c.log_freq = MaxLogFreq
                         /\ c.checkpoint_interval_type = "steps"
                         /\ c.checkpoint_interval = 1}

InitStop == InitWith(StopConfigs, {{}})

SpecFair == InitStop /\ [][Next]_vars /\ WF_vars(Run)

\* the end-to-end scenario: world size 4, topology (4, 1, 1), 10 steps, a
\* checkpoint every 10 steps, a metric record every 5 steps
E2EConfig ==
    [steps |-> 10, log_freq |-> 5,
     checkpoint_interval_type |-> "steps", checkpoint_interval |-> 10,
     world_size |-> 4, data_parallel_degree |-> 4,
     sequence_parallel_degree |-> 1, pipeline_parallel_degree |-> 1,
     batch_size |-> 1, seq_len |-> 2, loader_restarts |-> TRUE]

\* the loss of a rank at a step in the scenario: 1.0 or 2.0 by the data shard
E2ELoss(p, step) == 2 * (1 + ((p + step) % 2))

\* lines 176-208 in the scenario: no non-finite gradient
ComputeE2E(p) == ComputeWith(p, {E2ELoss(p, train_state[p].step)}, {FALSE})

\* line 252 in the scenario: every write succeeds
SaveE2E(p) == SaveWith(p, {TRUE})

InitE2E == InitWith({E2EConfig}, {{}})

NextE2E ==
    \/ \E p \in Ranks : BuildMesh(p)
    \/ \E p \in Ranks : Setup(p)
    \/ \E p \in Ranks : Load(p)
    \/ \E p \in Ranks : Reset(p)
    \/ \E p \in Ranks : LoopTest(p)
    \/ \E p \in Ranks : ComputeE2E(p)
    \/ \E p \in Ranks : Advance(p)
    \/ \E p \in Ranks : Emit(p)
    \/ \E p \in Ranks : Sched(p)
    \/ \E p \in Ranks : SaveE2E(p)
    \/ \E p \in Ranks : Close(p)
    \/ AllReduceMean
    \/ AllReduceMax

SpecE2E == InitE2E /\ [][NextE2E]_vars

\* the launches explored for the batch fetch: both kinds of data loader
DataConfigs ==
    {[c EXCEPT !.loader_restarts = r] : c \in StopConfigs, r \in BOOLEAN}

InitData == InitWith(DataConfigs, {{}})

SpecData == InitData /\ [][Next]_vars

\* a launch of two processes, data parallel
MultiConfigs ==
    { [steps |-> n, log_freq |-> f,
       checkpoint_interval_type |-> "steps", checkpoint_interval |-> MaxInterval,
       world_size |-> 2, data_parallel_degree |-> 2,
       sequence_parallel_degree |-> 1, pipeline_parallel_degree |-> 1,
       batch_size |-> 1, seq_len |-> 2, loader_restarts |-> TRUE] :
      n \in 1 .. MaxSteps, f \in 1 .. MaxLogFreq }

MultiRanks == 1 .. 2

\* lines 176-208 in the launch of two: any loss, no non-finite gradient
ComputeMulti(p) == ComputeWith(p, LossValues, {FALSE})

InitMulti == InitWith(MultiConfigs, {{}})

\* the steps of process p alone, its losses those of its data shard
RankRun(p) ==
    \/ BuildMesh(p) \/ Setup(p) \/ Load(p) \/ Reset(p) \/ LoopTest(p)
    \/ ComputeE2E(p) \/ Advance(p) \/ Emit(p) \/ Sched(p) \/ SaveE2E(p)
    \/ Close(p)

NextMulti ==
    \/ \E p \in Ranks : BuildMesh(p)
    \/ \E p \in Ranks : Setup(p)
    \/ \E p \in Ranks : Load(p)
    \/ \E p \in Ranks : Reset(p)
    \/ \E p \in Ranks : LoopTest(p)
    \/ \E p \in Ranks : ComputeMulti(p)
    \/ \E p \in Ranks : ComputeFail(p)
    \/ \E p \in Ranks : Advance(p)
    \/ \E p \in Ranks : Emit(p)
    \/ \E p \in Ranks : Sched(p)
    \/ \E p \in Ranks : SaveE2E(p)
    \/ \E p \in Ranks : Close(p)
    \/ AllReduceMean
    \/ AllReduceMax

SpecMulti == InitMulti /\ [][NextMulti]_vars

\* the launch of two with the losses of the data shards, any process
\* possibly ending by an exception in its compute
NextMultiShard ==
    \/ \E p \in Ranks : BuildMesh(p)
    \/ \E p \in Ranks : Setup(p)
    \/ \E p \in Ranks : Load(p)
    \/ \E p \in Ranks : Reset(p)
    \/ \E p \in Ranks : LoopTest(p)
    \/ \E p \in Ranks : ComputeE2E(p)
    \/ \E p \in Ranks : ComputeFail(p)
    \/ \E p \in Ranks : Advance(p)
    \/ \E p \in Ranks : Emit(p)
    \/ \E p \in Ranks : Sched(p)
    \/ \E p \in Ranks : SaveE2E(p)
    \/ \E p \in Ranks : Close(p)
    \/ AllReduceMean
    \/ AllReduceMax

\* every process that can take a step of its own keeps running, and a
\* reduction every process has called returns
SpecMultiFair ==
    /\ InitMulti /\ [][NextMultiShard]_vars
    /\ \A p \in MultiRanks : WF_vars(RankRun(p))
    /\ WF_vars(AllReduceMean)
    /\ WF_vars(AllReduceMax)

\* the first launch may find a checkpoint this program did not write
InitRestore == InitWith(JobConfigs, ForeignStores)

SpecRestore == InitRestore /\ [][Next]_vars

\* ------------------------------------------------------------------ positions
\* between two iterations, or after the loop
AtBoundary(p) == pc[p] \in {"loop", "stopping", "done"}

\* inside an iteration, after line 174
InIteration(p) ==
    pc[p] \in {"compute", "advance", "dist_mean", "dist_max", "emit", "sched",
               "save"}

\* inside an iteration, after lines 210-212
AfterAdvance(p) == pc[p] \in {"dist_mean", "dist_max", "emit", "sched", "save"}

\* the loop has been entered (checkpoint.load and reset are behind)
Entered(p) == AtBoundary(p) \/ InIteration(p)

\* the launch found no checkpoint: the TrainState is the fresh one
FreshRun(p) == load_calls[p] = 1 /\ loaded[p] = <<>>

\* the launch restored a checkpoint an earlier launch of this program saved
ResumedRun(p) == loaded[p] # <<>> /\ loaded[p][1].run >= 1

StepsFinite == cfg.steps # ForeverSteps

Max(a, b) == IF a >= b THEN a ELSE b

\* ------------------------------------------------------------------- claims

\* the steps of this launch whose log decision (line 215) is behind
LogDecided(p) ==
    IF AtBoundary(p) \/ pc[p] \in {"sched", "save"}
    THEN (start_step[p] + 1) .. train_state[p].step
    ELSE IF InIteration(p) THEN (start_step[p] + 1) .. (train_state[p].step - 1)
    ELSE {}

LoggedSteps(p) == {metric_log[p][i].step : i \in 1 .. Len(metric_log[p])}

\* C1: on a run started from a fresh TrainState every completed iteration
\* raises step by exactly 1 and appends exactly one loss: at the end of every
\* iteration and at loop exit, step and len(losses) both equal the number of
\* iterations completed.
C1_StateMonotonicity ==
    \A p \in Ranks :
        FreshRun(p) /\ AtBoundary(p) =>
            /\ train_state[p].step = iters[p]
            /\ HasLen(train_state[p].losses, train_state[p].step)

C1_Witness ==
    \E p \in Ranks :
        /\ FreshRun(p)
        /\ pc[p] = "loop"
        /\ train_state[p].step >= 2
        /\ HasLen(train_state[p].losses, train_state[p].step)

\* C2: for every TrainState the loop reaches, load_state_dict(state_dict())
\* gives back the same step, current_loss and losses sequence.
C2_RoundTrip ==
    \A p \in Ranks :
        Entered(p) => load_state_dict(state_dict(train_state[p])) = train_state[p]

\* C3: a run that loads a checkpoint a previous run saved at step k enters the
\* loop with step == k and len(losses) == k, executes k+1 first, and keeps
\* len(losses) == step at the end of every iteration.
C3_ResumeKeepsProgress ==
    \A p \in Ranks :
        ResumedRun(p) /\ Entered(p) =>
            /\ start_step[p] = loaded[p][1].step
            /\ AtBoundary(p) =>
                 /\ train_state[p].step = loaded[p][1].step + iters[p]
                 /\ HasLen(train_state[p].losses, train_state[p].step)
            /\ InIteration(p) => train_state[p].step = loaded[p][1].step + iters[p] + 1

\* C4: with interval type steps, interval v and finite steps N, the loop
\* calls checkpoint.save once per iteration, with the step of that iteration
\* and force == (step == N); the save writes (unless the write fails, C9) if
\* and only if step % v == 0 or step == N, so step N is written whatever v is.
C4_CheckpointCadence ==
    \A p \in Ranks :
        cfg.checkpoint_interval_type = "steps" /\ StepsFinite /\ Entered(p) =>
            /\ save_calls[p] = iters[p]
            /\ iters[p] > 0 =>
                 LET s == last_save[p][1]
                     due == s.step % cfg.checkpoint_interval = 0 \/ s.step = cfg.steps
                 IN  /\ s.step = start_step[p] + iters[p]
                     /\ s.force = (s.step = cfg.steps)
                     /\ s.attempted = due
                     /\ ~s.failed => (s.written = due)
                     /\ s.written =>
                          \E e \in store :
                              /\ e.rank = p /\ e.step = s.step /\ e.run = run
                              /\ item(e.train_state.step) = s.step
            /\ \A e \in store :
                   e.rank = p /\ e.run = run =>
                       e.step % cfg.checkpoint_interval = 0 \/ e.step = cfg.steps

\* the final step is written although it is off the cadence
C4_Witness ==
    \E p \in Ranks :
        /\ cfg.checkpoint_interval_type = "steps"
        /\ pc[p] = "done"
        /\ last_save[p] # <<>>
        /\ last_save[p][1].step = cfg.steps
        /\ last_save[p][1].step % cfg.checkpoint_interval # 0
        /\ last_save[p][1].force
        /\ last_save[p][1].written
        /\ save_calls[p] >= 3

\* C5: with log_freq f the loop gives metric_logger.log a record at step s if
\* and only if (s - 1) % f == 0; the record carries the step at which it is
\* given, and the steps of the records strictly increase (so at most one
\* record per step).
C5_LogCadence ==
    \A p \in Ranks :
        /\ \A s \in LogDecided(p) :
               (s \in LoggedSteps(p)) <=> ((s - 1) % cfg.log_freq = 0)
        /\ \A i \in 1 .. Len(metric_log[p]) :
               /\ (metric_log[p][i].step - 1) % cfg.log_freq = 0
               /\ metric_log[p][i].step <= train_state[p].step
               /\ i > 1 => metric_log[p][i - 1].step < metric_log[p][i].step
        /\ pc[p] = "sched" /\ (train_state[p].step - 1) % cfg.log_freq = 0 =>
               /\ metric_log[p] # <<>>
               /\ metric_log[p][Len(metric_log[p])].step = train_state[p].step

\* records at steps 1 and 3 with log_freq 2, none at step 2
C5_Witness ==
    \E p \in Ranks :
        /\ cfg.log_freq = 2
        /\ pc[p] = "loop"
        /\ train_state[p].step = 3
        /\ LoggedSteps(p) = {1, 3}

AllDone == \A p \in Ranks : pc[p] = "done"

\* some step of the program can be taken: a rank is at a position of its own,
\* or every rank has called the same reduction.  (A rank at "loop" can step
\* unless training.steps is -1 and the explored steps are used up.)
CanRun ==
    \/ \E p \in Ranks :
          /\ pc[p] \notin {"done", "failed", "dist_mean", "dist_max"}
          /\ pc[p] = "loop" /\ ~StepsFinite => train_state[p].step < MaxSteps
    \/ \A p \in Ranks : pc[p] = "dist_mean"
    \/ \A p \in Ranks : pc[p] = "dist_max"

CheckpointSteps == {e.step : e \in store}

\* C6: in the scenario (world size 4, topology (4, 1, 1), 10 steps, a
\* checkpoint every 10 steps, log_freq 5, no prior checkpoint) no rank fails or
\* gets stuck, every rank ends with step == 10 and len(losses) == 10 and two
\* metric records, of steps 1 and 6, and the only checkpoint written is the
\* one of step 10, written with force set.
C6_EndToEnd ==
    /\ AllDone \/ CanRun
    /\ CheckpointSteps \subseteq {10}
    /\ \A p \in Ranks :
        /\ pc[p] # "failed"
        /\ FreshRun(p) \/ pc[p] \in {"build_mesh", "setup", "load"}
        /\ \A s \in LogDecided(p) : (s \in LoggedSteps(p)) <=> (s \in {1, 6})
        /\ last_save[p] # <<>> =>
              last_save[p][1].written = (last_save[p][1].step = 10)
        /\ pc[p] \in {"stopping", "done"} =>
              /\ train_state[p].step = 10
              /\ HasLen(train_state[p].losses, 10)
              /\ [i \in 1 .. Len(metric_log[p]) |-> metric_log[p][i].step] = <<1, 6>>
              /\ save_calls[p] = 10
              /\ last_save[p][1].force
              /\ \E e \in store : e.rank = p /\ e.step = 10
              /\ CheckpointSteps = {10}

C6_Witness ==
    /\ AllDone
    /\ cfg = E2EConfig
    /\ Cardinality(store) = 4
    /\ \A p \in Ranks : train_state[p].step = 10 /\ Len(metric_log[p]) = 2

\* C7: an iteration whose optimizer step the gradient scaler skipped goes on
\* like any other: it does not end the run, step is the step of that
\* iteration, the loss is recorded, and scheduler.step() is called once; the
\* scheduler.step() calls always number the completed iterations.  (The
\* iteration is one of a TrainState whose losses is a list: on a float, which
\* load_state_dict leaves there, line 211 raises in every iteration, the
\* optimizer step skipped or not.)
C7_NumericInstability ==
    \A p \in Ranks :
        /\ sched_steps[p] = iters[p] + (IF pc[p] = "save" THEN 1 ELSE 0)
        /\ step_skipped[p] /\ train_state[p].losses.type = "list" =>
             /\ pc[p] # "failed"
             /\ InIteration(p) => train_state[p].step = start_step[p] + iters[p] + 1
             /\ AtBoundary(p) => train_state[p].step = start_step[p] + iters[p]
             /\ AfterAdvance(p) \/ AtBoundary(p) =>
                  /\ train_state[p].current_loss = loss[p]
                  /\ train_state[p].losses.val # <<>>
                  /\ train_state[p].losses.val[Len(train_state[p].losses.val)] = loss[p]

\* two iterations completed, the last one with its optimizer step skipped
C7_Witness ==
    \E p \in Ranks :
        /\ step_skipped[p]
        /\ pc[p] = "loop"
        /\ iters[p] = 2
        /\ train_state[p].step = 2
        /\ sched_steps[p] = 2
        /\ opt_steps[p] < 2

C8_Safety ==
    \A p \in Ranks :
        StepsFinite /\ reset_calls[p] = 1 =>
            /\ InIteration(p) => train_state[p].step <= cfg.steps
            /\ iters[p] <= Max(cfg.steps - start_step[p], 0)
            /\ pc[p] \in {"stopping", "done"} =>
                 train_state[p].step = Max(cfg.steps, start_step[p])

AllRanks == UNION {1 .. t.world_size : t \in Topologies}

C9_SaveStep ==
    \A p \in Ranks :
        pc[p] = "save" /\ pc'[p] # "save" =>
            /\ pc'[p] = "loop"
            /\ error'[p] = NoVal
            /\ train_state'[p] = train_state[p]
            /\ last_save'[p][1].failed => store' = store

C9_AfterFailure ==
    \A p \in Ranks :
        last_save[p] # <<>> /\ pc[p] = "loop" =>
            /\ last_save[p][1].failed /\ last_save[p][1].step < cfg.steps =>
                 ENABLED (LoopTest(p) /\ pc'[p] = "compute")
            /\ cfg.checkpoint_interval_type = "steps" =>
                 last_save[p][1].attempted =
                     (\/ last_save[p][1].step % cfg.checkpoint_interval = 0
                      \/ last_save[p][1].step = cfg.steps)

\* C9: a checkpoint.save whose write fails does not end the run: the
\* iteration ends as usual, TrainState and the folder are as before the call,
\* the loop goes on to the next step, and whether a later save writes is
\* decided as always.
C9_SaveFailureRecoverable == [][C9_SaveStep]_vars /\ []C9_AfterFailure

\* the write of step 1 failed, and the save of step 2 wrote
C9_Witness ==
    \E p \in Ranks :
        /\ cfg.checkpoint_interval_type = "steps"
        /\ cfg.checkpoint_interval = 1
        /\ pc[p] = "loop"
        /\ start_step[p] = 0
        /\ last_save[p] # <<>>
        /\ last_save[p][1].step = 2
        /\ last_save[p][1].written
        /\ ~ \E e \in store : e.step = 1

\* step == len(losses) in a train-state record
RecordConsistent(sd) == sd.losses.dim = 1 /\ Len(sd.losses.data) = item(sd.step)

\* C10: a restore from a record whose step differs from the length of its
\* losses ends in a fatal corruption error; the loop is never entered on it.
C10_CorruptRejected ==
    \A p \in Ranks :
        loaded[p] # <<>> /\ ~RecordConsistent(loaded[p][1].train_state) =>
            pc[p] = "failed" /\ error[p] = "CorruptStateError"

\* the degrees multiply to WORLD_SIZE and each is at least 1
DegreesFit ==
    /\ cfg.data_parallel_degree * cfg.sequence_parallel_degree
          * cfg.pipeline_parallel_degree = cfg.world_size
    /\ cfg.data_parallel_degree >= 1
    /\ cfg.sequence_parallel_degree >= 1
    /\ cfg.pipeline_parallel_degree >= 1

\* C13: main gets past the construction of the mesh only when the degrees
\* multiply to WORLD_SIZE and each is at least 1; otherwise it ends there with
\* a configuration error, before any checkpoint load, training step, save or
\* metric record.
C13_TopologyGate ==
    \A p \in Ranks :
        /\ pc[p] \notin {"build_mesh", "failed"} => DegreesFit
        /\ pc[p] = "failed" /\ error[p] = "ConfigError" => ~DegreesFit
        /\ ~DegreesFit =>
              /\ pc[p] \in {"build_mesh", "failed"}
              /\ pc[p] = "failed" => error[p] = "ConfigError"
              /\ load_calls[p] = 0 /\ reset_calls[p] = 0 /\ save_calls[p] = 0
              /\ train_state[p].step = 0 /\ iters[p] = 0 /\ batch[p] = 0
              /\ metric_log[p] = <<>>

\* degrees whose product is the world size, two of them below 1
C13_Witness ==
    \E p \in Ranks :
        /\ cfg.data_parallel_degree * cfg.sequence_parallel_degree
              * cfg.pipeline_parallel_degree = cfg.world_size
        /\ cfg.data_parallel_degree < 1
        /\ pc[p] = "failed"
        /\ error[p] = "ConfigError"
        /\ load_calls[p] = 0

\* C17: with training.steps == -1 the while condition is true at every test,
\* so the loop is never left and metric_logger.close() never reached, the
\* next iteration can always be entered (step keeps growing), and
\* checkpoint.save never gets force set: what is written is on the interval.
C17_RunForever ==
    \A p \in Ranks :
        cfg.steps = ForeverSteps =>
            /\ pc[p] \notin {"stopping", "done"}
            /\ ~closed[p]
            /\ pc[p] = "loop" /\ train_state[p].step < MaxSteps =>
                  ENABLED (LoopTest(p) /\ pc'[p] = "compute"
                             /\ train_state'[p].step = train_state[p].step + 1)
            /\ InIteration(p) /\ reset_calls[p] = 1 =>
                  train_state[p].step = start_step[p] + iters[p] + 1
            /\ last_save[p] # <<>> =>
                  /\ ~last_save[p][1].force
                  /\ cfg.checkpoint_interval_type = "steps" =>
                        last_save[p][1].attempted =
                            (last_save[p][1].step % cfg.checkpoint_interval = 0)
            /\ cfg.checkpoint_interval_type = "steps" =>
                  \A e \in store :
                      e.rank = p /\ e.run = run => e.step % cfg.checkpoint_interval = 0

\* step 3 of a run without end, off the interval of 2: nothing is written
C17_Witness ==
    \E p \in Ranks :
        /\ cfg.steps = ForeverSteps
        /\ cfg.checkpoint_interval_type = "steps"
        /\ cfg.checkpoint_interval = 2
        /\ pc[p] = "loop"
        /\ train_state[p].step = 3
        /\ iters[p] = 3
        /\ ~last_save[p][1].attempted
        /\ \E e \in store : e.rank = p /\ e.step = 2

\* the step checkpoint.load() left in train_state
LoadedStep(p) ==
    IF loaded[p] = <<>> THEN 0 ELSE item(loaded[p][1].train_state.step)

C18_Order ==
    \A p \in Ranks :
        /\ load_calls[p] <= 1 /\ reset_calls[p] <= load_calls[p]
        /\ pc[p] \in {"build_mesh", "setup", "load"} => load_calls[p] = 0
        /\ pc[p] = "reset" => load_calls[p] = 1 /\ reset_calls[p] = 0
        /\ Entered(p) => load_calls[p] = 1 /\ reset_calls[p] = 1
        /\ reset_calls[p] = 0 =>
              /\ iters[p] = 0 /\ save_calls[p] = 0 /\ batch[p] = 0
              /\ train_state[p].step = LoadedStep(p)
        /\ reset_calls[p] = 1 /\ iters[p] = 0 /\ pc[p] = "loop" =>
              train_state[p].step = LoadedStep(p)

C18_ResetStep ==
    \A p \in Ranks :
        reset_calls'[p] = reset_calls[p] + 1 =>
            /\ load_calls[p] = 1
            /\ train_state'[p] = train_state[p]
            /\ store' = store

\* C18: checkpoint.load() is called once, then checkpoint.reset() once, and
\* only then the loop is entered: before reset there is no step increment,
\* batch fetch or save; the reset step leaves TrainState and the checkpoint
\* folder as they are.
C18_StartupOrdering == [][C18_ResetStep]_vars /\ []C18_Order

\* the first iteration of a resumed run, after one load and one reset
C18_Witness ==
    \E p \in Ranks :
        /\ ResumedRun(p)
        /\ pc[p] = "compute"
        /\ iters[p] = 0
        /\ load_calls[p] = 1 /\ reset_calls[p] = 1
        /\ train_state[p].step = LoadedStep(p) + 1

\* the step of the last metric record of this launch, or the step at loop entry
LastEmit(p) ==
    IF metric_log[p] = <<>> THEN start_step[p]
    ELSE metric_log[p][Len(metric_log[p])].step

\* the last step whose loss has been recorded (lines 210-212)
LastRecorded(p) ==
    IF pc[p] \in {"compute", "advance"} THEN train_state[p].step - 1
    ELSE train_state[p].step

\* the last n elements of a sequence
LastN(seq, n) == SubSeq(seq, Len(seq) - n + 1, Len(seq))

\* C19: the window holds, in order, the losses of the steps since the last
\* metric record (since loop entry before the first one): its length is the
\* number of those steps and never above log_freq, it is non-empty when a
\* record is made, and right after the record it is empty and
\* nwords_since_last_log is 0.
C19_AccumulationWindow ==
    \A p \in Ranks :
        Entered(p) =>
            LET w == losses_since_last_log[p]
            IN  /\ Len(w) = LastRecorded(p) - LastEmit(p)
                /\ Len(w) <= cfg.log_freq
                /\ train_state[p].losses.type = "list" =>
                      /\ Len(w) <= Len(train_state[p].losses.val)
                      /\ w = LastN(train_state[p].losses.val, Len(w))
                /\ pc[p] \in {"dist_mean", "dist_max", "emit"} => w # <<>>
                /\ pc[p] = "sched" /\ LastEmit(p) = train_state[p].step =>
                      w = <<>> /\ nwords_since_last_log[p] = 0
                /\ nwords_since_last_log[p] =
                      cfg.batch_size * cfg.seq_len
                        * (Len(w) + (IF pc[p] = "advance" THEN 1 ELSE 0))

\* the record of step 3 with log_freq 2 is made of the losses of steps 2 and 3
C19_Witness ==
    \E p \in Ranks :
        /\ cfg.log_freq = 2
        /\ pc[p] = "emit"
        /\ train_state[p].step = 3
        /\ LastEmit(p) = 1
        /\ train_state[p].losses.val = <<2, 2, 4>>
        /\ losses_since_last_log[p] = <<2, 4>>

\* C14 as claimed: step == len(losses) in every state of a run, the states
\* inside an iteration and the state a failure leaves included.
C14_StepAfterCompute ==
    \A p \in Ranks :
        FreshRun(p) /\ (Entered(p) \/ pc[p] = "failed") =>
            HasLen(train_state[p].losses, train_state[p].step)

\* checkpoint.save of step k is about to be called: everything of step k is
\* behind, nothing of step k + 1 has begun
C15_AtSave ==
    \A p \in Ranks :
        pc[p] = "save" =>
            /\ train_state[p].step = start_step[p] + iters[p] + 1
            /\ train_state[p].current_loss = loss[p]
            /\ train_state[p].losses.type = "list"
            /\ train_state[p].losses.val # <<>>
            /\ train_state[p].losses.val[Len(train_state[p].losses.val)] = loss[p]
            /\ FreshRun(p) => HasLen(train_state[p].losses, train_state[p].step)
            /\ (train_state[p].step - 1) % cfg.log_freq = 0 =>
                  LastEmit(p) = train_state[p].step
            /\ sched_steps[p] = iters[p] + 1
            /\ save_calls[p] = iters[p]
            /\ data_loader[p].consumed = iters[p] + 1

\* the save of step k was called with k, before the batch of step k + 1, and
\* what it wrote carries step k
C15_AfterSave ==
    \A p \in Ranks :
        /\ pc[p] = "compute" =>
              /\ save_calls[p] = iters[p]
              /\ data_loader[p].consumed = iters[p]
        /\ Entered(p) /\ last_save[p] # <<>> =>
              last_save[p][1].step = start_step[p] + iters[p]
        /\ \A e \in store :
              e.rank = p /\ e.run = run => item(e.train_state.step) = e.step

\* C15: checkpoint.save(k) is called after TrainState is updated for step k
\* (step == k, current_loss set, loss appended; len(losses) == k on a fresh
\* run), after the metric record and the scheduler.step() of step k, and
\* before the batch of step k + 1 is fetched; the step it captures is k.
C15_SaveOrdering == C15_AtSave /\ C15_AfterSave

\* the save of step 2 of a fresh run wrote, and step 3 has not begun
C15_Witness ==
    \E p \in Ranks :
        /\ FreshRun(p)
        /\ pc[p] = "loop"
        /\ last_save[p] # <<>>
        /\ last_save[p][1].step = 2
        /\ last_save[p][1].written
        /\ HasLen(train_state[p].losses, 2)
        /\ sched_steps[p] = 2
        /\ data_loader[p].consumed = 2
        /\ \E e \in store : e.rank = p /\ e.run = run /\ e.step = 2

\* the losses of process q in the window a fresh run logs at step s: the
\* steps after the previous log step (s - log_freq, or none before step 1)
WindowAt(q, s) ==
    SubSeq(train_state[q].losses.val, Max(s - cfg.log_freq, 0) + 1, s)

RECURSIVE SumOver(_, _)
SumOver(f, S) ==
    IF S = {} THEN 0
    ELSE LET r == CHOOSE x \in S : TRUE IN f[r] + SumOver(f, S \ {r})

\* a record holds the mean over the processes of their window means (the
\* windows of a step have one length, so that is the sum of all their losses
\* over processes * length) and the greatest of their window maxima
RecordReduced(r) ==
    LET n == Cardinality(Ranks)
        w == Len(WindowAt(1, r.step))
        total == SumOver([q \in Ranks |-> SeqSum(WindowAt(q, r.step))], Ranks)
    IN  /\ w >= 1
        /\ r.global_avg_loss.den > 0
        /\ r.global_avg_loss.num * (n * w) = total * r.global_avg_loss.den
        /\ \A q \in Ranks :
              \A i \in 1 .. w : WindowAt(q, r.step)[i] <= r.global_max_loss
        /\ \E q \in Ranks :
              \E i \in 1 .. w : WindowAt(q, r.step)[i] = r.global_max_loss

\* C12: the global_avg_loss of every metric record is the mean over the
\* processes of their window averages and its global_max_loss the maximum of
\* their window maxima; every process logs the same two values for a step,
\* in whatever order the processes reached the reductions.
C12_ReductionCorrect ==
    \A p \in Ranks :
        /\ \A i \in 1 .. Len(metric_log[p]) : RecordReduced(metric_log[p][i])
        /\ pc[p] = "emit" =>
              RecordReduced([step |-> train_state[p].step,
                             global_avg_loss |-> global_avg_loss[p],
                             global_max_loss |-> global_max_loss[p]])
        /\ \A q \in Ranks :
              \A i \in 1 .. Len(metric_log[p]) :
                  i <= Len(metric_log[q]) =>
                      /\ metric_log[q][i].step = metric_log[p][i].step
                      /\ metric_log[q][i].global_avg_loss
                            = metric_log[p][i].global_avg_loss
                      /\ metric_log[q][i].global_max_loss
                            = metric_log[p][i].global_max_loss

\* window means 1.5 and 2.0 at step 3: the record holds 1.75 and the max 2.0
C12_Witness ==
    /\ cfg.log_freq = 2
    /\ \A p \in Ranks : Len(metric_log[p]) = 2
    /\ WindowAt(1, 3) = <<2, 4>>
    /\ WindowAt(2, 3) = <<4, 4>>
    /\ metric_log[1][2].step = 3
    /\ metric_log[1][2].global_avg_loss = [num |-> 7, den |-> 2]
    /\ metric_log[2][2].global_max_loss = 4

SomeFailed == \E q \in Ranks : pc[q] = "failed"

AtReduction(p) == pc[p] \in {"dist_mean", "dist_max"}

\* the processes are never in different reductions, hold one step between
\* dist_mean and dist_max, made or are making the same records, never are
\* more than log_freq steps apart, and reach every checkpoint boundary with
\* the same step: the j-th save of every process is the save of step j, and
\* the entries written for a step carry that step
C11_Symmetric ==
    \A p, q \in Ranks :
        /\ ~(pc[p] = "dist_mean" /\ pc[q] = "dist_max")
        /\ pc[p] = "dist_max" =>
              pc[q] = "dist_max" /\ train_state[q].step = train_state[p].step
        /\ pc[p] = "dist_mean" /\ pc[q] = "dist_mean" =>
              train_state[q].step = train_state[p].step
        /\ pc[p] = "emit" =>
              \/ pc[q] = "emit" /\ train_state[q].step = train_state[p].step
              \/ train_state[p].step \in LoggedSteps(q)
        /\ LoggedSteps(p) \subseteq LoggedSteps(q) \cup {train_state[q].step}
        /\ train_state[p].step - train_state[q].step <= cfg.log_freq
        /\ reset_calls[p] = 1 /\ reset_calls[q] = 1 => start_step[p] = start_step[q]
        /\ last_save[p] # <<>> =>
              /\ last_save[p][1].step = start_step[p] + save_calls[p]
              /\ train_state[p].step - last_save[p][1].step \in {0, 1}
        /\ \A e \in store, o \in store :
              e.step = o.step =>
                  item(e.train_state.step) = item(o.train_state.step)

\* a reduction returns to all processes at once, all of them in the same
\* reduction with the same step
C11_Completion ==
    \A p \in Ranks :
        AtReduction(p) /\ pc'[p] # pc[p] =>
            \A q \in Ranks :
                /\ pc[q] = pc[p]
                /\ train_state[q].step = train_state[p].step
                /\ pc'[q] = pc'[p]
                /\ train_state'[q].step = train_state[q].step

\* C11: processes started with the same configuration and step call the
\* same reductions (dist_mean, then dist_max, at every log step) at the same
\* steps: a reduction completes with one step on all of them, every
\* checkpoint boundary is reached with the same step by all, and while no
\* process has ended by an exception none waits forever at a reduction.
C11_CollectiveSymmetry ==
    /\ []C11_Symmetric
    /\ [][C11_Completion]_vars
    /\ \A p \in MultiRanks : AtReduction(p) ~> (~AtReduction(p) \/ SomeFailed)

\* both processes through three steps, two records and the save of step 3
C11_Witness ==
    /\ AllDone
    /\ cfg.world_size = 2
    /\ cfg.log_freq = 2
    /\ \A p \in Ranks :
          /\ train_state[p].step = 3
          /\ LoggedSteps(p) = {1, 3}
          /\ \E e \in store : e.rank = p /\ e.step = 3

\* the first log step (line 215) at or after step k
FirstLogStep(k, f) == k + ((f - ((k - 1) % f)) % f)

\* process q ended by an exception in a step at or before a log step of the
\* run, which it did not reach
CrashedBefore(q, s) ==
    /\ pc[q] = "failed"
    /\ s = FirstLogStep(train_state[q].step, cfg.log_freq)
    /\ s <= cfg.steps

\* process q ended by an exception before some log step of the run
Crashed(q) == \E s \in 1 .. cfg.steps : CrashedBefore(q, s)

\* process p waits in the reduction of the log step process q did not reach,
\* or has ended by an exception
StalledBehind(p, q) ==
    \/ pc[p] = "failed"
    \/ /\ pc[p] = "dist_mean"
       /\ train_state[p].step = FirstLogStep(train_state[q].step, cfg.log_freq)

\* no other process gets past the reduction of step s
C16_Held ==
    \A q \in Ranks : \A p \in Ranks \ {q} :
        \A s \in 1 .. cfg.steps :
            CrashedBefore(q, s) =>
                /\ train_state[p].step <= s
                /\ train_state[p].step = s =>
                      pc[p] \in {"compute", "advance", "dist_mean", "failed"}
                /\ pc[p] \notin {"stopping", "done"}
                /\ s \notin LoggedSteps(p)
                /\ last_save[p] # <<>> => last_save[p][1].step < s
                /\ \A e \in store : e.rank = p => e.step < s

\* a process waiting in dist_mean when a process has ended goes on waiting
C16_StaysBlocked ==
    \A p \in Ranks :
        SomeFailed /\ pc[p] = "dist_mean" =>
            pc'[p] = "dist_mean" /\ train_state'[p] = train_state[p]

\* C16: when a process ends by an exception before a log step s of the run,
\* every other process comes to wait in the reduction of step s (or ends by
\* an exception itself) and waits forever: it makes no record of step s, goes
\* to no later step, saves no checkpoint of step s or later, and never
\* reaches metric_logger.close().
C16_CollectiveStall ==
    /\ []C16_Held
    /\ [][C16_StaysBlocked]_vars
    /\ \A q \in MultiRanks : \A p \in MultiRanks \ {q} :
          Crashed(q) ~> []StalledBehind(p, q)

\* process 2 ended in step 2; process 1 waits in the reduction of step 3
C16_Witness ==
    /\ cfg.log_freq = 2
    /\ cfg.steps >= 3
    /\ pc[2] = "failed"
    /\ train_state[2].step = 2
    /\ pc[1] = "dist_mean"
    /\ train_state[1].step = 3
    /\ LoggedSteps(1) = {1}
    /\ last_save[1][1].step = 2

\* the batch of the current iteration has been fetched (line 176 is behind)
BatchFetched(p) == InIteration(p) /\ pc[p] # "compute"

\* C20: every iteration takes the first element of a new iterator over
\* data_loader; the loop carries no iterator position from step to step, so a
\* loader whose iteration restarts gives every step its first batch, however
\* many batches were taken before (and a loader that streams gives the batch
\* at its own position).
C20_BatchFetch ==
    \A p \in Ranks :
        BatchFetched(p) =>
            /\ data_loader[p].consumed = iters[p] + 1
            /\ data_loader[p].restarts => batch[p] = 1
            /\ ~data_loader[p].restarts => batch[p] = data_loader[p].consumed

\* the third iteration of a run on a restarting loader got the first batch
C20_Witness ==
    \E p \in Ranks :
        /\ data_loader[p].restarts
        /\ pc[p] = "save"
        /\ train_state[p].step = 3
        /\ data_loader[p].consumed = 3
        /\ batch[p] = 1

\* CanRun says exactly that Run is enabled
CanRunIsEnabled == CanRun <=> ENABLED Run

====
